---- MODULE Spec2Model ----
(***************************************************************************)
(* Model of the EpigrafIA browser front end:                               *)
(*   - src/src/utils/audioProcessing.js : audioBufferToFloat32,            *)
(*     extractMFCC (the audio -> feature tensor pipeline);                 *)
(*   - src/unnamed/part_001 (and its older copy part_000) : the model      *)
(*     loader (loadModels / getModels / unloadModels);                     *)
(*   - src/unnamed/part_002 : the PCM recorder (startRecording /           *)
(*     stopRecording).                                                     *)
(*                                                                         *)
(* JavaScript arrays are 0-based, TLA+ sequences 1-based: the JS element   *)
(* a[i] is the TLA+ element a[i + 1].  Index ranges such as the bins of a  *)
(* frame are kept 0-based with an exclusive end, exactly as in the code.   *)
(***************************************************************************)
EXTENDS Integers, Sequences, FiniteSets, TLC

VARIABLES
    \* ---- audioProcessing.js ------------------------------------------
    channelData,      \* audioBuffer.getChannelData(0), the input of a call
    apc,              \* which call has run on the input
    processedData,    \* value returned by audioBufferToFloat32
    mfccAudioData,    \* extractMFCC: const audioData (line 170)
    frames,           \* extractMFCC: the frame slices, in loop order
    bins,             \* extractMFCC: per frame, per band, <<start, end>>
    features,         \* extractMFCC: features after padding/truncation
    shape,            \* extractMFCC: shape of tf.tensor3d([features])
    normalized,       \* extractMFCC: the returned tensor's values
    \* ---- model loader (part_001) --------------------------------------
    languageModel,    \* let languageModel: null or a model instance
    accentModel,      \* let accentModel
    spoofingModel,    \* let spoofingModel
    modelsLoaded,     \* let modelsLoaded
    languageLabels,   \* let languageLabels
    spoofingConfig,   \* let spoofingConfig
    lpc,              \* per loadModels caller: the await the call is suspended at
    ret,              \* per caller: what the promise of the call settled with
    failed,           \* per caller: models whose tf.loadLayersModel rejected
    fetched,          \* per caller: how the two JSON resources answered
    nextInstance,     \* the next model instance tf.loadLayersModel creates
    disposed,         \* instances on which dispose() has been called
    created,          \* per model path: instances created since the last unload
    loadCalls,        \* loadModels calls made so far
    unloadCalls,      \* unloadModels calls made so far
    overlapping,      \* whether the callers start a call while another is suspended
    \* ---- recorder (part_002) ------------------------------------------
    audioContext,     \* let audioContext: null or an AudioContext
    mediaStream,      \* let mediaStream: null or a MediaStream
    scriptProcessor,  \* let scriptProcessor: null or a ScriptProcessorNode
    audioData,        \* let audioData: the chunks pushed by onaudioprocess
    isRecording,      \* let isRecording
    rpc,              \* per caller: where its startRecording / stopRecording call is
    callId,           \* per startRecording caller: number of its call (0: none)
    mergedData,       \* per caller: stopRecording's mergedData
    closeTarget,      \* per caller: the context whose close() it awaits
    wav,              \* per caller: the WAV its call resolved with
    stopSeen,         \* per startRecording caller: an explicit stopRecording ran
                      \*   while its promise was pending
    liveStreams,      \* granted streams whose tracks have not been stopped
    openContexts,     \* audio contexts created and not closed
    connected,        \* script processors connected to their destination
    chunkCount,       \* chunks delivered by onaudioprocess so far
    recordCalls,      \* startRecording calls made so far
    stopCalls,        \* explicit stopRecording calls made so far
    rerror,           \* per caller: the error its call rejected with, and its cause
    draining,         \* disconnected processors that may still deliver an
                      \*   audioprocess event queued before the disconnect
    discarded,        \* numbers of the chunks delivered while isRecording was false
    returned,         \* numbers of the chunks handed to a stopRecording result
    \* ---- float32ToWav called on its own (part_002) --------------------
    wavSamples,       \* the samples passed to float32ToWav
    wavBlob,          \* the Blob it returned
    wavDecoded,       \* the 16-bit values read back from the Blob's data
    wpc,              \* "unused", "input", "encoded" or "decoded"
    \* ---- sendAudioToBackend (part_002) --------------------------------
    spc,              \* per caller: where its sendAudioToBackend call is
    requests,         \* per caller: fetch requests issued by its current call
    status,           \* per caller: status of the response (0: none)
    sresult,          \* per caller: the value its call resolved with
    serror,           \* per caller: the message of the error it rejected with
    sendCalls         \* sendAudioToBackend calls made so far

audioVars == <<channelData, apc, processedData, mfccAudioData, frames, bins,
               features, shape, normalized>>

registryVars == <<languageModel, accentModel, spoofingModel, modelsLoaded,
                  languageLabels, spoofingConfig>>

loaderVars == <<registryVars, lpc, ret, failed, fetched,
                nextInstance, disposed, created, loadCalls, unloadCalls,
                overlapping>>

recorderState == <<audioContext, mediaStream, scriptProcessor, audioData, isRecording>>

recorderVars == <<recorderState, rpc, callId, mergedData, closeTarget, wav,
                  stopSeen, liveStreams, openContexts,
                  connected, chunkCount, recordCalls, stopCalls,
                  rerror, draining, discarded, returned>>

wavVars == <<wavSamples, wavBlob, wavDecoded, wpc>>

backendVars == <<spc, requests, status, sresult, serror, sendCalls>>

ioVars == <<wavVars, backendVars>>

vars == <<audioVars, loaderVars, recorderVars, ioVars>>

(***************************************************************************)
(* CONFIG (audioProcessing.js lines 9-17), scaled down so that every input *)
(* signal can be enumerated.  The real values are sampleRate 16000,        *)
(* nMfcc 40, fftSize 2048, hopLength 512, targetFrames 94; duration is the *)
(* real value.  The scaled values keep the relations the code's behaviour  *)
(* depends on: fftSize is not a multiple of nMfcc (2048 = 40*51 + 8),      *)
(* fftSize >= nMfcc, the target length is longer than a frame, and the     *)
(* natural frame count (90) is below targetFrames (94).                    *)
(***************************************************************************)
sampleRate == 3
duration == 3
nMfcc == 2
fftSize == 7
hopLength == 2
targetFrames == 3
\* CONFIG.nFeatures is the literal 120 = 3 * 40 ("40 MFCC + 40 delta + 40 delta2")
nFeatures == 3 * nMfcc

\* Non-zero sample amplitudes, in units of one half: -1.0 and 0.5
SampleVals == {-2, 1}

Min(a, b) == IF a < b THEN a ELSE b
Abs(x) == IF x < 0 THEN -x ELSE x

(***************************************************************************)
(* Exact rationals <<numerator, denominator>> stand for the JS numbers;    *)
(* the rounding of Float32Array stores is not modelled.                    *)
(***************************************************************************)
RECURSIVE GCD(_, _)
GCD(a, b) == IF b = 0 THEN a ELSE GCD(b, a % b)

Rat(n, d) ==
    LET g == GCD(Abs(n), Abs(d))
        s == IF d < 0 THEN -1 ELSE 1
    IN  IF n = 0 THEN <<0, 1>>
        ELSE IF d = 1 THEN <<n, 1>>
        ELSE <<s * (n \div g), s * (d \div g)>>

Zero == <<0, 1>>
\* 0 / 0; every operation on it gives it back
NaN == <<0, 0>>
IsNaN(a) == a[2] = 0
RatSub(a, b) ==
    IF IsNaN(a) \/ IsNaN(b) THEN NaN
    ELSE Rat(a[1] * b[2] - b[1] * a[2], a[2] * b[2])
RatAdd(a, b) ==
    IF IsNaN(a) \/ IsNaN(b) THEN NaN
    ELSE Rat(a[1] * b[2] + b[1] * a[2], a[2] * b[2])
RatMul(a, b) ==
    IF IsNaN(a) \/ IsNaN(b) THEN NaN ELSE Rat(a[1] * b[1], a[2] * b[2])
RatDivInt(a, n) == IF IsNaN(a) THEN NaN ELSE Rat(a[1], a[2] * n)

\* TypedArray.prototype.slice(start, end): 0-based, end exclusive, clamped.
slice(a, start, end) == SubSeq(a, start + 1, Min(end, Len(a)))

(***************************************************************************)
(* audioBufferToFloat32 (lines 135-155)                                    *)
(***************************************************************************)
targetLength == sampleRate * duration

\* (variant: the truncation branch is missing)
audioBufferToFloat32_noTruncate(cd) ==
    IF Len(cd) < targetLength
    THEN [i \in 1..targetLength |-> IF i <= Len(cd) THEN cd[i] ELSE 0]
    ELSE cd

audioBufferToFloat32(cd) ==
    IF Len(cd) > targetLength
    THEN slice(cd, 0, targetLength)
    ELSE IF Len(cd) < targetLength
         \* processedData = new Float32Array(targetLength); processedData.set(cd)
         THEN [i \in 1..targetLength |-> IF i <= Len(cd) THEN cd[i] ELSE 0]
         ELSE cd

(***************************************************************************)
(* extractMFCC (lines 165-225)                                             *)
(***************************************************************************)
\* (variant: the frame size is not subtracted before the division)
numFrames_noFrameSize(data) == (Len(data) \div hopLength) + 1

\* line 174; \div rounds down like Math.floor, also below zero
numFrames(data) == ((Len(data) - fftSize) \div hopLength) + 1

\* lines 178-180
frameStart(i) == i * hopLength
frameEnd(data, i) == Min(frameStart(i) + fftSize, Len(data))
frameOf(data, i) == slice(data, frameStart(i), frameEnd(data, i))

\* (variant: the bin width is rounded up, so that the last bin is clipped)
binSize_ceil(frame) == (Len(frame) + nMfcc - 1) \div nMfcc

\* (variant: the operands of the division are exchanged)
binSize_swapped(frame) == IF Len(frame) = 0 THEN 0 ELSE nMfcc \div Len(frame)

\* lines 189-191
binSize(frame) == Len(frame) \div nMfcc
binStart(frame, j) == j * binSize(frame)

\* (variant: the last bin runs to the end of the frame)
binEnd_absorb(frame, j) ==
    IF j = nMfcc - 1 THEN Len(frame)
    ELSE Min(binStart(frame, j) + binSize(frame), Len(frame))

binEnd(frame, j) == Min(binStart(frame, j) + binSize(frame), Len(frame))

\* (variant: the loop counts the samples instead of adding their magnitudes)
sumAbs_count(frame, k, end) == IF k >= end THEN 0 ELSE end - k

\* lines 188, 193-195: sum of Math.abs(frame[k]) for start <= k < end
RECURSIVE sumAbs(_, _, _)
sumAbs(frame, k, end) ==
    IF k >= end THEN 0 ELSE Abs(frame[k + 1]) + sumAbs(frame, k + 1, end)

\* line 197: sum / binSize (0 / 0 when the frame is shorter than nMfcc)
energy(frame, j) ==
    IF binSize(frame) = 0 THEN NaN
    ELSE Rat(sumAbs(frame, binStart(frame, j), binEnd(frame, j)), binSize(frame))

\* A store into a Float32Array; a write at an index outside it is dropped.
store(arr, idx, v) == IF idx < Len(arr) THEN [arr EXCEPT ![idx + 1] = v] ELSE arr

\* (variant: the second difference is taken before the first difference
\* of this band is stored, so it reads the zero the array was created with)
bandStep_staleDelta(frame, ff, j) ==
    LET f1 == store(ff, j, energy(frame, j))
        f2 == store(f1, j + 2 * nMfcc,
                    IF j > 0 THEN RatSub(f1[j + nMfcc + 1], f1[j + nMfcc]) ELSE Zero)
    IN  store(f2, j + nMfcc,
              IF j > 0 THEN RatSub(f2[j + 1], f2[j]) ELSE Zero)

\* lines 197-199: the three stores of one pass of the band loop, in order;
\* the differences read the entries already stored in frameFeatures
bandStep(frame, ff, j) ==
    LET f1 == store(ff, j, energy(frame, j))
        f2 == store(f1, j + nMfcc,
                    IF j > 0 THEN RatSub(f1[j + 1], f1[j]) ELSE Zero)
    IN  store(f2, j + 2 * nMfcc,
              IF j > 0 THEN RatSub(f2[j + nMfcc + 1], f2[j + nMfcc]) ELSE Zero)

\* lines 187-200: for (let j = 0; j < CONFIG.nMfcc; j++)
RECURSIVE bandLoop(_, _, _)
bandLoop(frame, ff, j) ==
    IF j >= nMfcc THEN ff ELSE bandLoop(frame, bandStep(frame, ff, j), j + 1)

\* lines 184-202: frameFeatures = new Float32Array(nFeatures), then the loop
frameFeatures(frame) == bandLoop(frame, [x \in 1..nFeatures |-> Zero], 0)

\* lines 175-203: one feature vector per natural frame
naturalCount(data) ==
    IF numFrames(data) > 0 THEN numFrames(data) ELSE 0

naturalFeatures(data) ==
    [i \in 1..naturalCount(data) |-> frameFeatures(frameOf(data, i - 1))]

\* lines 206-212: pad with zero vectors, then cut to targetFrames
\* (variant: the padding loop is missing)
padFrames_none(fs) == fs

padFrames(fs) ==
    IF Len(fs) < targetFrames
    THEN fs \o [i \in 1..(targetFrames - Len(fs)) |-> [x \in 1..nFeatures |-> Zero]]
    ELSE fs

cutFrames(fs) ==
    IF Len(fs) > targetFrames THEN SubSeq(fs, 1, targetFrames) ELSE fs

fixFrameCount(fs) == cutFrames(padFrames(fs))

\* line 215: tf.tensor3d([features]) infers its shape from the nested array
tensorShape(fs) == <<1, Len(fs), IF Len(fs) > 0 THEN Len(fs[1]) ELSE 0>>

\* lines 218-220: mean and population variance per column, over the time
\* axis.  The square root is kept symbolic: an entry of the result stands for
\* dev / (sqrt(variance) + 1e-8).
RECURSIVE colSum(_, _, _)
colSum(fs, c, t) == IF t = 0 THEN Zero ELSE RatAdd(fs[t][c], colSum(fs, c, t - 1))

colMean(fs, c) == RatDivInt(colSum(fs, c, Len(fs)), Len(fs))

RECURSIVE colSqSum(_, _, _, _)
colSqSum(fs, c, m, t) ==
    IF t = 0 THEN Zero
    ELSE LET d == RatSub(fs[t][c], m)
         IN  RatAdd(RatMul(d, d), colSqSum(fs, c, m, t - 1))

\* (variant: the sample variance, divided by n - 1)
colVariance_sample(fs, c) ==
    RatDivInt(colSqSum(fs, c, colMean(fs, c), Len(fs)), Len(fs) - 1)

colVariance(fs, c) == RatDivInt(colSqSum(fs, c, colMean(fs, c), Len(fs)), Len(fs))

normalize(fs) ==
    LET width == IF Len(fs) > 0 THEN Len(fs[1]) ELSE 0
        mean == [c \in 1..width |-> colMean(fs, c)]
        variance == [c \in 1..width |-> colVariance(fs, c)]
    IN  [t \in 1..Len(fs) |->
            [c \in 1..width |->
                [dev |-> RatSub(fs[t][c], mean[c]), variance |-> variance[c]]]]

\* The audio pipeline while no call of it is modelled.
AudioIdle ==
    /\ channelData = <<>>
    /\ apc = "unused"
    /\ processedData = <<>>
    /\ mfccAudioData = <<>>
    /\ frames = <<>>
    /\ bins = <<>>
    /\ features = <<>>
    /\ shape = <<>>
    /\ normalized = <<>>

(***************************************************************************)
(* float32ToWav called on its own, and sendAudioToBackend: state while no  *)
(* call is modelled                                                        *)
(***************************************************************************)
Senders == {"s1", "s2"}

WavIdle ==
    /\ wavSamples = <<>>
    /\ wavBlob = [pending |-> TRUE]
    /\ wavDecoded = <<>>
    /\ wpc = "unused"

BackendIdle ==
    /\ spc = [c \in Senders |-> "idle"]
    /\ requests = [c \in Senders |-> 0]
    /\ status = [c \in Senders |-> 0]
    /\ sresult = [c \in Senders |-> "none"]
    /\ serror = [c \in Senders |-> "none"]
    /\ sendCalls = 0

IoIdle == WavIdle /\ BackendIdle

(***************************************************************************)
(* Recorder state: src/unnamed/part_002                                    *)
(***************************************************************************)
\* Callers that may have a startRecording call in flight at the same time,
\* and the caller of explicit stopRecording calls.
Recorders == {"r1", "r2"}
Stopper == "stop"
RecorderCallers == Recorders \cup {Stopper}

NoWav == [pending |-> TRUE]
NoError == [cause |-> "none", message |-> "none"]

\* lines 6-10, and no call made
RecorderIdle ==
    /\ audioContext = 0
    /\ mediaStream = 0
    /\ scriptProcessor = 0
    /\ audioData = <<>>
    /\ isRecording = FALSE
    /\ rpc = [c \in RecorderCallers |-> "idle"]
    /\ rerror = [c \in RecorderCallers |-> NoError]
    /\ draining = {}
    /\ discarded = {}
    /\ returned = {}
    /\ callId = [r \in Recorders |-> 0]
    /\ mergedData = [c \in RecorderCallers |-> <<>>]
    /\ closeTarget = [c \in RecorderCallers |-> 0]
    /\ wav = [c \in RecorderCallers |-> NoWav]
    /\ stopSeen = [r \in Recorders |-> FALSE]
    /\ liveStreams = {}
    /\ openContexts = {}
    /\ connected = {}
    /\ chunkCount = 0
    /\ recordCalls = 0
    /\ stopCalls = 0

(***************************************************************************)
(* Model loader: src/unnamed/part_001 (part_000 is the same module without *)
(* the spoofing model and its config).  JavaScript runs one callback at a  *)
(* time: a call of loadModels runs without interruption up to its next     *)
(* await, and other callbacks may run while it is suspended there.  Each   *)
(* action below is the code between two awaits.                            *)
(***************************************************************************)
\* Callers that may have a loadModels call in flight at the same time.
Callers == {"a", "b"}

\* A model reference is null or the number of a model instance.
null == 0
\* languageLabels / spoofingConfig: null, the default in the catch block, or
\* the parsed body of the JSON resource
NullValue == "null"
DefaultLabels == "[Espanol, Ingles, Frances, Aleman]"
ParsedLabels == "labels.json"
DefaultSpoofingConfig == "{threshold: 0.5, labels: [human, spoof]}"
ParsedSpoofingConfig == "config.json"

\* How many calls of loadModels / unloadModels a run makes.
MaxLoadCalls == 2
MaxUnloadCalls == 2

ModelNames == {"language", "accent", "spoofing"}
OptionalModels == {"accent", "spoofing"}

NoResult == [pending |-> TRUE]

\* lines 142-144
getModels ==
    [languageModel |-> languageModel, accentModel |-> accentModel,
     spoofingModel |-> spoofingModel, languageLabels |-> languageLabels,
     spoofingConfig |-> spoofingConfig, modelsLoaded |-> modelsLoaded]

LoaderIdle ==
    /\ languageModel = null
    /\ accentModel = null
    /\ spoofingModel = null
    /\ modelsLoaded = FALSE
    /\ languageLabels = NullValue
    /\ spoofingConfig = NullValue
    /\ lpc = [c \in Callers |-> "idle"]
    /\ ret = [c \in Callers |-> NoResult]
    /\ failed = [c \in Callers |-> {}]
    /\ fetched = [c \in Callers |-> [labels |-> "none", config |-> "none"]]
    /\ nextInstance = 1
    /\ disposed = {}
    /\ created = [m \in ModelNames |-> 0]
    /\ loadCalls = 0
    /\ unloadCalls = 0

\* A caller that awaits every call before the next one starts a call only
\* when no loadModels call is suspended.
NoCallInFlight == \A c \in Callers : lpc[c] = "idle"
MayCall == overlapping \/ NoCallInFlight

callVars == <<failed, fetched>>
instanceVars == <<nextInstance, disposed, created>>

\* lines 62-72: the call up to `await tf.ready()`
LoadModelsCall(c) ==
    /\ lpc[c] = "idle"
    /\ MayCall
    /\ loadCalls < MaxLoadCalls
    /\ loadCalls' = loadCalls + 1
    /\ failed' = [failed EXCEPT ![c] = {}]
    /\ fetched' = [fetched EXCEPT ![c] = [labels |-> "none", config |-> "none"]]
    /\ IF modelsLoaded
       THEN /\ lpc' = [lpc EXCEPT ![c] = "resolved"]
            \* line 65: return { languageModel, accentModel, languageLabels }
            /\ ret' = [ret EXCEPT ![c] =
                          [languageModel |-> languageModel,
                           accentModel |-> accentModel,
                           languageLabels |-> languageLabels]]
       ELSE /\ lpc' = [lpc EXCEPT ![c] = "tfReady"]
            /\ ret' = [ret EXCEPT ![c] = NoResult]
    /\ UNCHANGED <<registryVars, instanceVars, unloadCalls, overlapping>>
    /\ UNCHANGED <<audioVars, recorderVars, ioVars>>

\* lines 72-76 and 27-28: tf.ready() resolves; loadLabels starts its fetch
TfReady(c) ==
    /\ lpc[c] = "tfReady"
    /\ lpc' = [lpc EXCEPT ![c] = "labelsFetch"]
    /\ UNCHANGED <<registryVars, ret, callVars, instanceVars, loadCalls, unloadCalls,
                   overlapping>>
    /\ UNCHANGED <<audioVars, recorderVars, ioVars>>

\* lines 28-37: the fetch of labels.json settles.  "ok": response.ok;
\* "notOk": a response with a non-success status; "throw": the fetch rejects.
\* After loadLabels returns, loadSpoofingConfig starts its fetch (lines 77, 44).
LabelsFetch(c) ==
    /\ lpc[c] = "labelsFetch"
    /\ \E answer \in {"ok", "notOk", "throw"} :
         /\ fetched' = [fetched EXCEPT ![c].labels = answer]
         /\ lpc' = [lpc EXCEPT ![c] = IF answer = "ok" THEN "labelsJson" ELSE "configFetch"]
         /\ languageLabels' = IF answer = "throw" THEN DefaultLabels ELSE languageLabels
    /\ UNCHANGED <<languageModel, accentModel, spoofingModel, modelsLoaded,
                   spoofingConfig, ret, failed, instanceVars,
                   loadCalls, unloadCalls, overlapping>>
    /\ UNCHANGED <<audioVars, recorderVars, ioVars>>

\* lines 30-37: response.json() settles: the parsed body, or a rejection for
\* a body that is not JSON, which the catch block turns into the default
LabelsJson(c) ==
    /\ lpc[c] = "labelsJson"
    /\ \E answer \in {"parsed", "badJson"} :
         /\ fetched' = [fetched EXCEPT ![c].labels = answer]
         /\ languageLabels' = IF answer = "parsed" THEN ParsedLabels ELSE DefaultLabels
    /\ lpc' = [lpc EXCEPT ![c] = "configFetch"]
    /\ UNCHANGED <<languageModel, accentModel, spoofingModel, modelsLoaded,
                   spoofingConfig, ret, failed, instanceVars,
                   loadCalls, unloadCalls, overlapping>>
    /\ UNCHANGED <<audioVars, recorderVars, ioVars>>

\* lines 44-56: the fetch of config.json settles; after loadSpoofingConfig
\* returns, loadModels invokes tf.loadLayersModel for the language model
\* (line 84)
ConfigFetch(c) ==
    /\ lpc[c] = "configFetch"
    /\ \E answer \in {"ok", "notOk", "throw"} :
         /\ fetched' = [fetched EXCEPT ![c].config = answer]
         /\ lpc' = [lpc EXCEPT ![c] = IF answer = "ok" THEN "configJson" ELSE "languageLoad"]
         /\ spoofingConfig' = IF answer = "throw" THEN DefaultSpoofingConfig
                              ELSE spoofingConfig
    /\ UNCHANGED <<languageModel, accentModel, spoofingModel, modelsLoaded,
                   languageLabels, ret, failed, instanceVars,
                   loadCalls, unloadCalls, overlapping>>
    /\ UNCHANGED <<audioVars, recorderVars, ioVars>>

\* lines 46-56 and 84
ConfigJson(c) ==
    /\ lpc[c] = "configJson"
    /\ \E answer \in {"parsed", "badJson"} :
         /\ fetched' = [fetched EXCEPT ![c].config = answer]
         /\ spoofingConfig' = IF answer = "parsed" THEN ParsedSpoofingConfig
                              ELSE DefaultSpoofingConfig
    /\ lpc' = [lpc EXCEPT ![c] = "languageLoad"]
    /\ UNCHANGED <<languageModel, accentModel, spoofingModel, modelsLoaded,
                   languageLabels, ret, failed, instanceVars,
                   loadCalls, unloadCalls, overlapping>>
    /\ UNCHANGED <<audioVars, recorderVars, ioVars>>

\* lines 83-95: tf.loadLayersModel(MODEL_PATHS.language) settles.  A rejection
\* is rethrown (line 90) and leaves through the outer catch (lines 124-135),
\* which rejects the call; otherwise the accent model is requested (line 95).
LanguageLoad(c) ==
    /\ lpc[c] = "languageLoad"
    /\ \/ /\ languageModel' = nextInstance
          /\ nextInstance' = nextInstance + 1
          /\ created' = [created EXCEPT !["language"] = @ + 1]
          /\ lpc' = [lpc EXCEPT ![c] = "accentLoad"]
          /\ UNCHANGED <<ret, failed>>
       \/ /\ \E message \in {"404", "other"} :
               ret' = [ret EXCEPT ![c] =
                          [error |-> IF message = "404"
                                     THEN "No se encontraron los modelos"
                                     ELSE "Error cargando modelos"]]
          /\ failed' = [failed EXCEPT ![c] = @ \cup {"language"}]
          /\ lpc' = [lpc EXCEPT ![c] = "rejected"]
          /\ UNCHANGED <<languageModel, nextInstance, created>>
    /\ UNCHANGED <<accentModel, spoofingModel, modelsLoaded, languageLabels,
                   spoofingConfig, fetched, disposed, loadCalls, unloadCalls,
                   overlapping>>
    /\ UNCHANGED <<audioVars, recorderVars, ioVars>>

\* (variant: a rejection of the accent model is rethrown like the language
\* model's)
AccentLoad_rethrow(c) ==
    /\ lpc[c] = "accentLoad"
    /\ \/ /\ accentModel' = nextInstance
          /\ nextInstance' = nextInstance + 1
          /\ created' = [created EXCEPT !["accent"] = @ + 1]
          /\ lpc' = [lpc EXCEPT ![c] = "spoofingLoad"]
          /\ UNCHANGED <<failed, ret>>
       \/ /\ failed' = [failed EXCEPT ![c] = @ \cup {"accent"}]
          /\ ret' = [ret EXCEPT ![c] = [error |-> "Error cargando modelos"]]
          /\ lpc' = [lpc EXCEPT ![c] = "rejected"]
          /\ UNCHANGED <<accentModel, nextInstance, created>>
    /\ UNCHANGED <<languageModel, spoofingModel, modelsLoaded, languageLabels,
                   spoofingConfig, fetched, disposed, loadCalls, unloadCalls,
                   overlapping>>
    /\ UNCHANGED <<audioVars, recorderVars, ioVars>>

\* lines 93-107: tf.loadLayersModel(MODEL_PATHS.accent) settles; a rejection
\* is caught (lines 99-102); then the spoofing model is requested (line 107)
AccentLoad(c) ==
    /\ lpc[c] = "accentLoad"
    /\ \/ /\ accentModel' = nextInstance
          /\ nextInstance' = nextInstance + 1
          /\ created' = [created EXCEPT !["accent"] = @ + 1]
          /\ UNCHANGED failed
       \/ /\ accentModel' = null
          /\ failed' = [failed EXCEPT ![c] = @ \cup {"accent"}]
          /\ UNCHANGED <<nextInstance, created>>
    /\ lpc' = [lpc EXCEPT ![c] = "spoofingLoad"]
    /\ UNCHANGED <<languageModel, spoofingModel, modelsLoaded, languageLabels,
                   spoofingConfig, ret, fetched, disposed, loadCalls,
                   unloadCalls, overlapping>>
    /\ UNCHANGED <<audioVars, recorderVars, ioVars>>

\* lines 105-122: tf.loadLayersModel(MODEL_PATHS.spoofing) settles; a
\* rejection is caught (lines 111-114); modelsLoaded = true; the call returns
\* the five references
SpoofingLoad(c) ==
    /\ lpc[c] = "spoofingLoad"
    /\ \/ /\ spoofingModel' = nextInstance
          /\ nextInstance' = nextInstance + 1
          /\ created' = [created EXCEPT !["spoofing"] = @ + 1]
          /\ UNCHANGED failed
       \/ /\ spoofingModel' = null
          /\ failed' = [failed EXCEPT ![c] = @ \cup {"spoofing"}]
          /\ UNCHANGED <<nextInstance, created>>
    /\ modelsLoaded' = TRUE
    /\ ret' = [ret EXCEPT ![c] =
                  [languageModel |-> languageModel, accentModel |-> accentModel,
                   spoofingModel |-> spoofingModel', languageLabels |-> languageLabels,
                   spoofingConfig |-> spoofingConfig]]
    /\ lpc' = [lpc EXCEPT ![c] = "resolved"]
    /\ UNCHANGED <<languageModel, accentModel, languageLabels, spoofingConfig,
                   fetched, disposed, loadCalls, unloadCalls,
                   overlapping>>
    /\ UNCHANGED <<audioVars, recorderVars, ioVars>>

\* The caller has taken the result of its call and may call again.
Settled(c) ==
    /\ lpc[c] \in {"resolved", "rejected"}
    /\ lpc' = [lpc EXCEPT ![c] = "idle"]
    /\ ret' = [ret EXCEPT ![c] = NoResult]
    /\ failed' = [failed EXCEPT ![c] = {}]
    /\ fetched' = [fetched EXCEPT ![c] = [labels |-> "none", config |-> "none"]]
    /\ UNCHANGED <<registryVars, instanceVars, loadCalls, unloadCalls,
                   overlapping>>
    /\ UNCHANGED <<audioVars, recorderVars, ioVars>>

\* (variant: line 162 is missing, modelsLoaded stays as it is)
UnloadModels_keepsFlag ==
    /\ MayCall
    /\ unloadCalls < MaxUnloadCalls
    /\ unloadCalls' = unloadCalls + 1
    /\ disposed' = disposed \cup ({languageModel, accentModel, spoofingModel} \ {null})
    /\ languageModel' = null
    /\ accentModel' = null
    /\ spoofingModel' = null
    /\ languageLabels' = NullValue
    /\ spoofingConfig' = NullValue
    /\ created' = [m \in ModelNames |-> 0]
    /\ UNCHANGED <<modelsLoaded, lpc, ret, callVars, nextInstance, loadCalls, overlapping>>
    /\ UNCHANGED <<audioVars, recorderVars, ioVars>>

\* lines 149-166
UnloadModels ==
    /\ MayCall
    /\ unloadCalls < MaxUnloadCalls
    /\ unloadCalls' = unloadCalls + 1
    /\ disposed' = disposed \cup ({languageModel, accentModel, spoofingModel} \ {null})
    /\ languageModel' = null
    /\ accentModel' = null
    /\ spoofingModel' = null
    /\ modelsLoaded' = FALSE
    /\ languageLabels' = NullValue
    /\ spoofingConfig' = NullValue
    /\ created' = [m \in ModelNames |-> 0]
    /\ UNCHANGED <<lpc, ret, callVars, nextInstance, loadCalls, overlapping>>
    /\ UNCHANGED <<audioVars, recorderVars, ioVars>>

LoadModelsStep(c) ==
    \/ LoadModelsCall(c)
    \/ TfReady(c)
    \/ LabelsFetch(c)
    \/ LabelsJson(c)
    \/ ConfigFetch(c)
    \/ ConfigJson(c)
    \/ LanguageLoad(c)
    \/ AccentLoad(c)
    \/ SpoofingLoad(c)
    \/ Settled(c)

NextLoader == (\E c \in Callers : LoadModelsStep(c)) \/ UnloadModels

\* Calls of loadModels may overlap each other and unloadModels.
InitLoader == AudioIdle /\ RecorderIdle /\ IoIdle /\ LoaderIdle /\ overlapping = TRUE

SpecLoader == InitLoader /\ [][NextLoader]_vars

\* One call at a time: a call starts, and unloadModels runs, only when no
\* loadModels call is in flight.
InitLoaderSeq == AudioIdle /\ RecorderIdle /\ IoIdle /\ LoaderIdle /\ overlapping = FALSE

SpecLoaderSeq == InitLoaderSeq /\ [][NextLoader]_vars

(***************************************************************************)
(* Recorder: src/unnamed/part_002.  As in the loader, an action is the     *)
(* code that runs between two awaits (or one callback of the browser).     *)
(* The stream, the audio context and the script processor acquired by the  *)
(* n-th startRecording call are all numbered n; 0 is null.                 *)
(***************************************************************************)
\* line 12
SAMPLE_RATE == 16000
\* Samples per chunk: createScriptProcessor(4096, 1, 1) on line 41, scaled down.
ChunkLen == 2
\* A sample is a multiple of 1 / SampleDen; the amplitude 1.0 is SampleDen.
SampleDen == 10
\* How many calls and audio callbacks a run makes.
MaxRecordCalls == 2
MaxStopCalls == 1
MaxChunks == 3

Max(a, b) == IF a > b THEN a ELSE b

\* The samples of the k-th chunk the hardware delivers (line 48): all
\* different, of alternating sign.
ChunkSamples(k) ==
    [i \in 1..ChunkLen |->
        LET n == (k - 1) * ChunkLen + i IN IF n % 2 = 0 THEN -n ELSE n]

\* lines 94-100: the chunks of audioData copied one after the other
RECURSIVE merge(_)
merge(chunks) ==
    IF chunks = <<>> THEN <<>> ELSE Head(chunks).samples \o merge(Tail(chunks))

\* Number conversions of DataView.setInt16: truncation towards zero, then
\* reduction modulo 2^16 into -32768..32767, stored low byte first
Trunc(a, d) == IF a >= 0 THEN a \div d ELSE -((-a) \div d)
ToInt16(x) == ((x + 32768) % 65536) - 32768
Int16Bytes(v) == LET u == v % 65536 IN <<u % 256, u \div 256>>

\* (variant: the clamp of line 150 is missing)
pcm16_noClamp(n) ==
    ToInt16(IF n < 0 THEN Trunc(n * 32768, SampleDen)
            ELSE Trunc(n * 32767, SampleDen))

\* (variant: both signs are scaled by 0x7FFF)
pcm16_sameScale(n) ==
    LET sv == Max(-SampleDen, Min(SampleDen, n))
    IN  ToInt16(Trunc(sv * 32767, SampleDen))

\* lines 150-151, for the sample n / SampleDen
pcm16(n) ==
    LET sv == Max(-SampleDen, Min(SampleDen, n))
    IN  ToInt16(IF sv < 0 THEN Trunc(sv * 32768, SampleDen)
                ELSE Trunc(sv * 32767, SampleDen))

RECURSIVE pcmBytes(_)
pcmBytes(samples) ==
    IF samples = <<>> THEN <<>>
    ELSE Int16Bytes(pcm16(Head(samples))) \o pcmBytes(Tail(samples))

\* lines 122-156
float32ToWav(samples, rate) ==
    [type |-> "audio/wav",
     riff |-> "RIFF", chunkSize |-> 36 + Len(samples) * 2, wave |-> "WAVE",
     fmt |-> "fmt ", subchunk1Size |-> 16, audioFormat |-> 1, numChannels |-> 1,
     sampleRate |-> rate, byteRate |-> rate * 2, blockAlign |-> 2,
     bitsPerSample |-> 16,
     dataTag |-> "data", subchunk2Size |-> Len(samples) * 2,
     data |-> pcmBytes(samples)]

recorderCounts == <<chunkCount, recordCalls, stopCalls>>
chunkGhosts == <<draining, discarded, returned>>

\* The numbers of the chunks held in a list of chunks
ids(chunks) == {chunks[i].id : i \in 1..Len(chunks)}

\* line 71: the one message of every error startRecording throws
StartRecordingErrorMessage == "No se pudo acceder al micrófono. Verifica los permisos."

\* No startRecording call is in flight or unconsumed.
NoRecordingInFlight == \A q \in Recorders : rpc[q] = "idle"

\* line 20-23: the call up to `await getUserMedia(...)`
StartRecordingCall(r) ==
    /\ rpc[r] = "idle"
    /\ overlapping \/ NoRecordingInFlight
    /\ recordCalls < MaxRecordCalls
    /\ recordCalls' = recordCalls + 1
    /\ callId' = [callId EXCEPT ![r] = recordCalls + 1]
    /\ rpc' = [rpc EXCEPT ![r] = "getUserMedia"]
    /\ stopSeen' = [stopSeen EXCEPT ![r] = FALSE]
    /\ rerror' = [rerror EXCEPT ![r] = NoError]
    /\ UNCHANGED <<recorderState, mergedData, closeTarget, wav, liveStreams,
                   openContexts, connected, chunkCount, stopCalls, chunkGhosts>>
    /\ UNCHANGED <<audioVars, loaderVars, ioVars>>

\* lines 23, 69-72: getUserMedia rejects with a DOMException named
\* NotAllowedError (permission denied) or NotFoundError (no input device);
\* the catch block throws a new Error
GetUserMediaRejects(r) ==
    /\ rpc[r] = "getUserMedia"
    /\ rpc' = [rpc EXCEPT ![r] = "rejected"]
    /\ \E name \in {"NotAllowedError", "NotFoundError"} :
         rerror' = [rerror EXCEPT ![r] =
                       [cause |-> name, message |-> StartRecordingErrorMessage]]
    /\ UNCHANGED <<recorderState, callId, mergedData, closeTarget, wav,
                   stopSeen, liveStreams, openContexts, connected,
                   recorderCounts, chunkGhosts>>
    /\ UNCHANGED <<audioVars, loaderVars, ioVars>>

\* lines 23-67: getUserMedia grants a stream and the rest of the try block
\* runs: "contextThrows": the AudioContext constructor throws (line 33);
\* "processorThrows": createMediaStreamSource or createScriptProcessor throws
\* (lines 37-41); "ok": nothing throws, the recording starts and the promise
\* with the timer is returned.  A throw is caught on line 69 and rethrown.
GetUserMediaGrants(r) ==
    /\ rpc[r] = "getUserMedia"
    /\ mediaStream' = callId[r]
    /\ liveStreams' = liveStreams \cup {callId[r]}
    /\ \E outcome \in {"contextThrows", "processorThrows", "ok"} :
         /\ audioContext' = IF outcome = "contextThrows" THEN audioContext
                            ELSE callId[r]
         /\ openContexts' = IF outcome = "contextThrows" THEN openContexts
                            ELSE openContexts \cup {callId[r]}
         /\ IF outcome = "ok"
            THEN /\ scriptProcessor' = callId[r]
                 /\ audioData' = <<>>
                 /\ isRecording' = TRUE
                 /\ connected' = connected \cup {callId[r]}
                 /\ rpc' = [rpc EXCEPT ![r] = "recording"]
                 /\ UNCHANGED rerror
            ELSE /\ rpc' = [rpc EXCEPT ![r] = "rejected"]
                 /\ rerror' = [rerror EXCEPT ![r] =
                        [cause |-> outcome, message |-> StartRecordingErrorMessage]]
                 /\ UNCHANGED <<scriptProcessor, audioData, isRecording, connected>>
    /\ UNCHANGED <<callId, mergedData, closeTarget, wav, stopSeen,
                   recorderCounts, chunkGhosts>>
    /\ UNCHANGED <<audioVars, loaderVars, ioVars>>

\* (variant: the handler does not test isRecording)
AudioProcess_noTest(p) ==
    /\ p \in connected \cup draining
    /\ p \in openContexts
    /\ chunkCount < MaxChunks
    /\ chunkCount' = chunkCount + 1
    /\ audioData' = Append(audioData,
                           [source |-> p, id |-> chunkCount + 1,
                            samples |-> ChunkSamples(chunkCount + 1)])
    /\ discarded' = IF isRecording THEN discarded
                    ELSE discarded \cup {chunkCount + 1}
    /\ UNCHANGED <<audioContext, mediaStream, scriptProcessor, isRecording, rpc,
                   callId, mergedData, closeTarget, wav, stopSeen,
                   liveStreams, openContexts, connected, recordCalls, stopCalls,
                   rerror, draining, returned>>
    /\ UNCHANGED <<audioVars, loaderVars, ioVars>>

\* lines 46-52: onaudioprocess of processor p, connected or disconnected
\* with an event still queued, while its context is not closed; every handler
\* reads and writes the module's isRecording and audioData
AudioProcess(p) ==
    /\ p \in connected \cup draining
    /\ p \in openContexts
    /\ chunkCount < MaxChunks
    /\ chunkCount' = chunkCount + 1
    /\ audioData' = IF isRecording
                    THEN Append(audioData,
                                [source |-> p, id |-> chunkCount + 1,
                                 samples |-> ChunkSamples(chunkCount + 1)])
                    ELSE audioData
    /\ discarded' = IF isRecording THEN discarded
                    ELSE discarded \cup {chunkCount + 1}
    /\ UNCHANGED <<audioContext, mediaStream, scriptProcessor, isRecording, rpc,
                   callId, mergedData, closeTarget, wav, stopSeen,
                   liveStreams, openContexts, connected, recordCalls, stopCalls,
                   rerror, draining, returned>>
    /\ UNCHANGED <<audioVars, loaderVars, ioVars>>

\* lines 79-113, run by caller c up to `await audioContext.close()`, or to
\* the end when audioContext is null
StopRecordingBegin(c) ==
    /\ isRecording' = FALSE
    /\ connected' = connected \ {scriptProcessor}
    /\ draining' = draining \cup (connected \cap {scriptProcessor})
    /\ scriptProcessor' = 0
    /\ returned' = returned \cup ids(audioData)
    /\ liveStreams' = liveStreams \ {mediaStream}
    /\ mediaStream' = 0
    /\ mergedData' = [mergedData EXCEPT ![c] = merge(audioData)]
    /\ audioData' = <<>>
    /\ closeTarget' = [closeTarget EXCEPT ![c] = audioContext]
    /\ IF audioContext # 0
       THEN /\ rpc' = [rpc EXCEPT ![c] = "closing"]
            /\ wav' = [wav EXCEPT ![c] = NoWav]
       ELSE /\ rpc' = [rpc EXCEPT ![c] = "resolved"]
            /\ wav' = [wav EXCEPT ![c] = float32ToWav(merge(audioData), SAMPLE_RATE)]
    /\ UNCHANGED <<audioContext, openContexts, rerror, discarded>>

\* lines 59-66: the setTimeout callback of call r runs stopRecording
TimerFires(r) ==
    /\ rpc[r] = "recording"
    /\ StopRecordingBegin(r)
    /\ UNCHANGED <<callId, stopSeen, recorderCounts>>
    /\ UNCHANGED <<audioVars, loaderVars, ioVars>>

\* lines 79-113: stopRecording called by the application
StopRecordingCall ==
    /\ rpc[Stopper] = "idle"
    /\ stopCalls < MaxStopCalls
    /\ stopCalls' = stopCalls + 1
    /\ stopSeen' = [r \in Recorders |-> stopSeen[r] \/ rpc[r] = "recording"]
    /\ StopRecordingBegin(Stopper)
    /\ UNCHANGED <<callId, chunkCount, recordCalls>>
    /\ UNCHANGED <<audioVars, loaderVars, ioVars>>

\* lines 106-113 (and 62-65 for a timer's call): audioContext.close()
\* settles.  It resolves once the context is closed; a close() of a context
\* that another stopRecording has closed in the meantime may also reject
\* (InvalidStateError), and stopRecording then rejects at line 107.
CloseSettles(c) ==
    /\ rpc[c] = "closing"
    /\ \/ /\ openContexts' = openContexts \ {closeTarget[c]}
          /\ audioContext' = 0
          /\ wav' = [wav EXCEPT ![c] = float32ToWav(mergedData[c], SAMPLE_RATE)]
          /\ rpc' = [rpc EXCEPT ![c] = "resolved"]
          /\ UNCHANGED rerror
       \/ /\ closeTarget[c] \notin openContexts
          /\ rpc' = [rpc EXCEPT ![c] = "rejected"]
          /\ rerror' = [rerror EXCEPT ![c] =
                 [cause |-> "InvalidStateError", message |-> "InvalidStateError"]]
          /\ UNCHANGED <<openContexts, audioContext, wav>>
    /\ draining' = draining \ (openContexts \ openContexts')
    /\ UNCHANGED <<mediaStream, scriptProcessor, audioData, isRecording, callId,
                   mergedData, closeTarget, stopSeen, liveStreams, connected,
                   recorderCounts, discarded, returned>>
    /\ UNCHANGED <<audioVars, loaderVars, ioVars>>

\* The caller has taken the settled promise of its call and may call again.
RecorderSettled(c) ==
    /\ rpc[c] \in {"resolved", "rejected"}
    /\ rpc' = [rpc EXCEPT ![c] = "idle"]
    /\ wav' = [wav EXCEPT ![c] = NoWav]
    /\ mergedData' = [mergedData EXCEPT ![c] = <<>>]
    /\ closeTarget' = [closeTarget EXCEPT ![c] = 0]
    /\ callId' = [r \in Recorders |-> IF r = c THEN 0 ELSE callId[r]]
    /\ stopSeen' = [r \in Recorders |-> IF r = c THEN FALSE ELSE stopSeen[r]]
    /\ rerror' = [rerror EXCEPT ![c] = NoError]
    /\ UNCHANGED <<recorderState, liveStreams, openContexts, connected,
                   recorderCounts, chunkGhosts>>
    /\ UNCHANGED <<audioVars, loaderVars, ioVars>>

NextRecorder ==
    \/ \E r \in Recorders :
         \/ StartRecordingCall(r)
         \/ GetUserMediaRejects(r)
         \/ GetUserMediaGrants(r)
         \/ TimerFires(r)
    \/ \E p \in 1..MaxRecordCalls : AudioProcess(p)
    \/ StopRecordingCall
    \/ \E c \in RecorderCallers : CloseSettles(c) \/ RecorderSettled(c)

\* startRecording may be called while another call of it is in flight
InitRecorder == AudioIdle /\ LoaderIdle /\ IoIdle /\ overlapping = TRUE /\ RecorderIdle

SpecRecorder == InitRecorder /\ [][NextRecorder]_vars

\* startRecording is called only when no call of it is in flight
InitRecorderSeq == AudioIdle /\ LoaderIdle /\ IoIdle /\ overlapping = FALSE /\ RecorderIdle

SpecRecorderSeq == InitRecorderSeq /\ [][NextRecorder]_vars

(***************************************************************************)
(* float32ToWav (part_002 lines 122-156) applied to sample sequences of    *)
(* every kind, values outside [-1, 1] included, and its data read back.    *)
(***************************************************************************)
MaxWavLen == 2
\* Samples from -(1 + 2/SampleDen) to 1 + 2/SampleDen
WavSampleVals == (-(SampleDen + 2))..(SampleDen + 2)

\* The signed 16-bit values stored low byte first in a byte sequence: what a
\* reader of the PCM data sees (getInt16(offset, true))
RECURSIVE decodePcm16(_)
decodePcm16(bytes) ==
    IF Len(bytes) < 2 THEN <<>>
    ELSE LET u == bytes[1] + 256 * bytes[2]
         IN  <<IF u >= 32768 THEN u - 65536 ELSE u>> \o decodePcm16(Tail(Tail(bytes)))

InitWav ==
    /\ wavSamples \in UNION {[1..k -> WavSampleVals] : k \in 0..MaxWavLen}
    /\ wavBlob = [pending |-> TRUE]
    /\ wavDecoded = <<>>
    /\ wpc = "input"
    /\ BackendIdle
    /\ AudioIdle /\ LoaderIdle /\ overlapping = FALSE /\ RecorderIdle

CallFloat32ToWav ==
    /\ wpc = "input"
    /\ wpc' = "encoded"
    /\ wavBlob' = float32ToWav(wavSamples, SAMPLE_RATE)
    /\ UNCHANGED <<wavSamples, wavDecoded, backendVars>>
    /\ UNCHANGED <<audioVars, loaderVars, recorderVars>>

ReadWavData ==
    /\ wpc = "encoded"
    /\ wpc' = "decoded"
    /\ wavDecoded' = decodePcm16(wavBlob.data)
    /\ UNCHANGED <<wavSamples, wavBlob, backendVars>>
    /\ UNCHANGED <<audioVars, loaderVars, recorderVars>>

NextWav == CallFloat32ToWav \/ ReadWavData

SpecWav == InitWav /\ [][NextWav]_vars

\* C14: for every input value, also outside [-1, 1], the value written is
\* 32767 for an input >= 1, -32768 for an input <= -1 and 0 for 0, and it
\* never wraps around: it has the sign of the input and grows with it.
C14_ClampedQuantization ==
    wpc = "decoded" =>
        /\ Len(wavDecoded) = Len(wavSamples)
        /\ \A b \in 1..Len(wavBlob.data) : wavBlob.data[b] \in 0..255
        /\ \A i \in 1..Len(wavSamples) :
              /\ wavDecoded[i] \in (-32768)..32767
              /\ wavSamples[i] >= SampleDen => wavDecoded[i] = 32767
              /\ wavSamples[i] <= -SampleDen => wavDecoded[i] = -32768
              /\ wavSamples[i] = 0 => wavDecoded[i] = 0
              /\ wavSamples[i] > 0 => wavDecoded[i] > 0
              /\ wavSamples[i] < 0 => wavDecoded[i] < 0
              /\ \A j \in 1..Len(wavSamples) :
                    wavSamples[i] <= wavSamples[j] => wavDecoded[i] <= wavDecoded[j]

\* A sample above 1 and a sample below -1 were encoded and read back.
C14_Witness ==
    /\ wpc = "decoded"
    /\ \E i, j \in 1..Len(wavSamples) :
          /\ wavSamples[i] > SampleDen /\ wavDecoded[i] = 32767
          /\ wavSamples[j] < -SampleDen /\ wavDecoded[j] = -32768

\* All samples of the input lie in [-1, 1].
InRange == \A i \in 1..Len(wavSamples) : Abs(wavSamples[i]) <= SampleDen

\* |v / 32768 - n / SampleDen|, as a multiple of 1 / (32768 * SampleDen)
RoundTripError(n, v) == Abs(v * SampleDen - n * 32768)

\* C15 (as claimed): a sequence of samples in [-1, 1] is read back with the
\* same length and order, each value v / 32768 at most 1/32768 away from the
\* original.
C15_RoundTripOneStep ==
    (wpc = "decoded" /\ InRange) =>
        /\ Len(wavDecoded) = Len(wavSamples)
        /\ \A i \in 1..Len(wavSamples) :
              RoundTripError(wavSamples[i], wavDecoded[i]) <= SampleDen

\* C15 (amended): a sequence of samples in [-1, 1] is read back with the
\* same length and order; a sample <= 0 is at most 1/32768 away from the
\* original, a positive sample less than 2/32768 away, and the header's data
\* size is two bytes per sample.
C15_RoundTripTwoSteps ==
    (wpc = "decoded" /\ InRange) =>
        /\ Len(wavDecoded) = Len(wavSamples)
        /\ wavBlob.subchunk2Size = 2 * Len(wavSamples)
        /\ Len(wavBlob.data) = 2 * Len(wavSamples)
        /\ \A i \in 1..Len(wavSamples) :
              /\ wavSamples[i] <= 0 =>
                    RoundTripError(wavSamples[i], wavDecoded[i]) <= SampleDen
              /\ wavSamples[i] > 0 =>
                    RoundTripError(wavSamples[i], wavDecoded[i]) < 2 * SampleDen

\* Two different samples of [-1, 1] were encoded and read back in order, and
\* a positive one came back more than 1/32768 below the original.
C15_Witness ==
    /\ wpc = "decoded"
    /\ InRange
    /\ Len(wavSamples) = 2
    /\ wavSamples[1] < 0 /\ wavDecoded[1] < 0
    /\ wavSamples[2] > 0
    /\ RoundTripError(wavSamples[2], wavDecoded[2]) > SampleDen

(***************************************************************************)
(* sendAudioToBackend (part_002 lines 188-212).  An action is the code     *)
(* between two awaits.                                                     *)
(***************************************************************************)
MaxSendCalls == 3
\* Statuses the backend may answer with; response.ok is 200 <= status <= 299
Statuses == {200, 201, 404, 500}
ok(st) == 200 <= st /\ st <= 299
SendErrorMessage == "Error al enviar audio al servidor"

\* lines 188-201: the FormData is built and fetch is called
SendAudioToBackendCall(c) ==
    /\ spc[c] = "idle"
    /\ sendCalls < MaxSendCalls
    /\ sendCalls' = sendCalls + 1
    /\ requests' = [requests EXCEPT ![c] = 1]
    /\ status' = [status EXCEPT ![c] = 0]
    /\ sresult' = [sresult EXCEPT ![c] = "none"]
    /\ serror' = [serror EXCEPT ![c] = "none"]
    /\ spc' = [spc EXCEPT ![c] = "fetch"]
    /\ UNCHANGED wavVars
    /\ UNCHANGED <<audioVars, loaderVars, recorderVars>>

\* line 198 rejects (network failure): caught on line 208, rethrown on 210
FetchRejects(c) ==
    /\ spc[c] = "fetch"
    /\ spc' = [spc EXCEPT ![c] = "rejected"]
    /\ serror' = [serror EXCEPT ![c] = SendErrorMessage]
    /\ UNCHANGED <<requests, status, sresult, sendCalls, wavVars>>
    /\ UNCHANGED <<audioVars, loaderVars, recorderVars>>

\* (variant: the test of response.ok is missing)
FetchResolves_noOkTest(c) ==
    /\ spc[c] = "fetch"
    /\ \E st \in Statuses :
         /\ status' = [status EXCEPT ![c] = st]
         /\ spc' = [spc EXCEPT ![c] = "json"]
         /\ UNCHANGED serror
    /\ UNCHANGED <<requests, sresult, sendCalls, wavVars>>
    /\ UNCHANGED <<audioVars, loaderVars, recorderVars>>

\* lines 198-207: fetch resolves with a response; a status that is not a
\* success throws into the catch block, a success goes on to response.json()
FetchResolves(c) ==
    /\ spc[c] = "fetch"
    /\ \E st \in Statuses :
         /\ status' = [status EXCEPT ![c] = st]
         /\ IF ok(st)
            THEN /\ spc' = [spc EXCEPT ![c] = "json"]
                 /\ UNCHANGED serror
            ELSE /\ spc' = [spc EXCEPT ![c] = "rejected"]
                 /\ serror' = [serror EXCEPT ![c] = SendErrorMessage]
    /\ UNCHANGED <<requests, sresult, sendCalls, wavVars>>
    /\ UNCHANGED <<audioVars, loaderVars, recorderVars>>

\* line 207: response.json() settles; a body that is not JSON rejects
JsonSettles(c) ==
    /\ spc[c] = "json"
    /\ \E parses \in BOOLEAN :
         IF parses
         THEN /\ spc' = [spc EXCEPT ![c] = "resolved"]
              /\ sresult' = [sresult EXCEPT ![c] = "parsed body"]
              /\ UNCHANGED serror
         ELSE /\ spc' = [spc EXCEPT ![c] = "rejected"]
              /\ serror' = [serror EXCEPT ![c] = SendErrorMessage]
              /\ UNCHANGED sresult
    /\ UNCHANGED <<requests, status, sendCalls, wavVars>>
    /\ UNCHANGED <<audioVars, loaderVars, recorderVars>>

\* The caller has taken the settled promise and may call again.
SendSettled(c) ==
    /\ spc[c] \in {"resolved", "rejected"}
    /\ spc' = [spc EXCEPT ![c] = "idle"]
    /\ requests' = [requests EXCEPT ![c] = 0]
    /\ status' = [status EXCEPT ![c] = 0]
    /\ sresult' = [sresult EXCEPT ![c] = "none"]
    /\ serror' = [serror EXCEPT ![c] = "none"]
    /\ UNCHANGED <<sendCalls, wavVars>>
    /\ UNCHANGED <<audioVars, loaderVars, recorderVars>>

NextBackend ==
    \E c \in Senders :
        \/ SendAudioToBackendCall(c)
        \/ FetchRejects(c)
        \/ FetchResolves(c)
        \/ JsonSettles(c)
        \/ SendSettled(c)

InitBackend ==
    /\ BackendIdle /\ WavIdle
    /\ AudioIdle /\ LoaderIdle /\ overlapping = TRUE /\ RecorderIdle

SpecBackend == InitBackend /\ [][NextBackend]_vars

\* C17: a call of sendAudioToBackend issues exactly one request; after a
\* network failure or a response whose status is not a success it rejects
\* with an error and without a result; it resolves, with the parsed body,
\* only after a response with a success status.
C17_OneRequestNoRetry ==
    \A c \in Senders :
        /\ spc[c] # "idle" => requests[c] = 1
        /\ spc[c] = "resolved" =>
              /\ ok(status[c])
              /\ sresult[c] = "parsed body"
              /\ serror[c] = "none"
        /\ spc[c] = "rejected" =>
              /\ sresult[c] = "none"
              /\ serror[c] = SendErrorMessage
        /\ (spc[c] \in {"json", "resolved", "rejected"} /\ ~ok(status[c])) =>
              spc[c] = "rejected"

\* One call was rejected after a response with status 500, having issued one
\* request, and another call resolved.
C17_Witness ==
    \E c, e \in Senders :
        /\ spc[c] = "rejected" /\ status[c] = 500 /\ requests[c] = 1
        /\ spc[e] = "resolved" /\ sresult[e] = "parsed body"

(***************************************************************************)
(* Properties of the recorder                                              *)
(***************************************************************************)

\* C6: when a startRecording call has settled, the stream it
\* was granted has its tracks stopped and the audio context it opened is
\* closed.
C6_ResourcesReleased ==
    \A r \in Recorders :
        rpc[r] \in {"resolved", "rejected"} =>
            /\ callId[r] \notin liveStreams
            /\ callId[r] \notin openContexts

\* C7: the promise of startRecording settles at the earlier of its timer and
\* an explicit stopRecording: once an explicit stopRecording made during the
\* recording has completed, the promise is no longer pending.
C7_SettlesAtEarlierEvent ==
    \A r \in Recorders :
        (stopSeen[r] /\ rpc[Stopper] = "resolved") => rpc[r] # "recording"

\* C16: permission denied and no input device surface from startRecording
\* as errors the caller can tell apart: two calls rejected for these two
\* different causes carry different messages.
C16_DistinctErrors ==
    \A r, q \in Recorders :
        (/\ rpc[r] = "rejected" /\ rerror[r].cause = "NotAllowedError"
         /\ rpc[q] = "rejected" /\ rerror[q].cause = "NotFoundError") =>
            rerror[r].message # rerror[q].message

\* The samples of the chunks numbered in S, in the order of the numbers
RECURSIVE chunksInOrder(_)
chunksInOrder(S) ==
    IF S = {} THEN <<>>
    ELSE LET m == CHOOSE k \in S : \A j \in S : k <= j
         IN  ChunkSamples(m) \o chunksInOrder(S \ {m})

\* The callers that hold the signal of a stopRecording call
Holders == {c \in RecorderCallers : rpc[c] \in {"closing", "resolved"}}

\* C18: with one startRecording call at a time, audioData holds the chunks
\* delivered during the recording, whole and in arrival order; the signal
\* of every stopRecording is the concatenation in arrival order of chunks
\* delivered while recording, its length the sum of their lengths; every
\* chunk delivered so far is either held, or in one result, or was delivered
\* while not recording, and then it is in no result.
C18_ChunksInArrivalOrder ==
    /\ \A i \in 1..Len(audioData) :
          /\ audioData[i].samples = ChunkSamples(audioData[i].id)
          /\ \A j \in 1..Len(audioData) : i < j => audioData[i].id < audioData[j].id
    /\ discarded \cup returned \cup ids(audioData) = 1..chunkCount
    /\ discarded \cap returned = {}
    /\ discarded \cap ids(audioData) = {}
    /\ returned \cap ids(audioData) = {}
    /\ \A c \in Holders :
          /\ \E S \in SUBSET returned :
                /\ mergedData[c] = chunksInOrder(S)
                /\ Len(mergedData[c]) = ChunkLen * Cardinality(S)
          /\ rpc[c] = "resolved" => wav[c].subchunk2Size = 2 * Len(mergedData[c])
          /\ \A e \in Holders \ {c} :
                \A i \in 1..Len(mergedData[c]) : \A j \in 1..Len(mergedData[e]) :
                    mergedData[c][i] # mergedData[e][j]

\* A stopRecording resolved with two chunks, and a chunk that arrived after
\* the stop was dropped.
C18_Witness ==
    /\ discarded # {}
    /\ \E c \in RecorderCallers :
          /\ rpc[c] = "resolved"
          /\ Len(mergedData[c]) = 2 * ChunkLen
          /\ wav[c].subchunk2Size = 4 * ChunkLen

\* No startRecording or stopRecording call is in flight.
RecorderQuiet == \A c \in RecorderCallers : rpc[c] = "idle"

\* C24: the recordings of startRecording calls stay independent: while a
\* call is recording and no explicit stopRecording has run, its own stream
\* is live and its own processor connected (only its own timer stops it);
\* the chunks held for a result all come from one stream; and when no call
\* is in flight no recording's processor, stream or context is left behind.
C24_IndependentRecordings ==
    /\ \A r \in Recorders :
          (rpc[r] = "recording" /\ ~stopSeen[r]) =>
              /\ callId[r] \in liveStreams
              /\ callId[r] \in connected
              /\ callId[r] \in openContexts
    /\ \A i, j \in 1..Len(audioData) : audioData[i].source = audioData[j].source
    /\ RecorderQuiet =>
          /\ connected = {}
          /\ \A r \in 1..recordCalls :
                r \in draining => (r \notin liveStreams /\ r \notin openContexts)

(***************************************************************************)
(* Properties of the model loader                                          *)
(***************************************************************************)

\* C3 (as claimed): between two unloadModels calls each model is loaded at
\* most once, however the loadModels calls interleave: at most one instance
\* is created per model path.
C3_LoadedAtMostOnce == \A m \in ModelNames : created[m] <= 1

\* C4 (as claimed): when the language model fails to load the call rejects
\* and getModels() reports every reference null and modelsLoaded false.
C4_NoPartialState ==
    \A c \in Callers :
        lpc[c] = "rejected" =>
            getModels = [languageModel |-> null, accentModel |-> null,
                         spoofingModel |-> null, languageLabels |-> NullValue,
                         spoofingConfig |-> NullValue, modelsLoaded |-> FALSE]

\* C5: when the language model has loaded and an optional model fails to
\* load, the call is not rejected: the failed optional reference is null, the
\* language reference is not, the other optional model is still requested,
\* and the call resolves with modelsLoaded true.
C5_OptionalFailureTolerated ==
    \A c \in Callers :
        failed[c] \cap OptionalModels # {} =>
            /\ lpc[c] \in {"spoofingLoad", "resolved"}
            /\ languageModel # null
            /\ "accent" \in failed[c] => accentModel = null
            /\ "spoofing" \in failed[c] => spoofingModel = null
            /\ lpc[c] = "resolved" =>
                  /\ modelsLoaded
                  /\ ret[c].languageModel = languageModel
                  /\ ret[c].accentModel = accentModel
                  /\ ret[c].spoofingModel = spoofingModel
                  /\ spoofingModel # null \/ "spoofing" \in failed[c]

\* A call resolved after its accent model failed and its spoofing model
\* loaded.
C5_Witness ==
    \E c \in Callers :
        /\ lpc[c] = "resolved"
        /\ failed[c] = {"accent"}
        /\ ret[c].accentModel = null
        /\ ret[c].spoofingModel # null
        /\ ret[c].languageModel # null

\* C8 (as claimed): when loadModels resolves, languageLabels and
\* spoofingConfig are not null: the parsed resource when it was available, the
\* default when it answered with a non-success status, failed at the network
\* level or could not be parsed.
C8_LabelsAndConfigNeverNull ==
    \A c \in Callers :
        lpc[c] = "resolved" =>
            /\ languageLabels \in {ParsedLabels, DefaultLabels}
            /\ spoofingConfig \in {ParsedSpoofingConfig, DefaultSpoofingConfig}
            /\ fetched[c].labels = "parsed" => languageLabels = ParsedLabels
            /\ fetched[c].labels \in {"notOk", "throw", "badJson"} =>
                  languageLabels = DefaultLabels
            /\ fetched[c].config = "parsed" => spoofingConfig = ParsedSpoofingConfig
            /\ fetched[c].config \in {"notOk", "throw", "badJson"} =>
                  spoofingConfig = DefaultSpoofingConfig

(***************************************************************************)
(* Calls of the audio pipeline on one input buffer                         *)
(***************************************************************************)
\* every input of up to n samples that is silent (all zero) or has no zero
\* sample; zeros inside a signal come from the padding
Signals(n) == UNION {[1..k -> SampleVals] \cup {[i \in 1..k |-> 0]} : k \in 0..n}

InitAudio ==
    /\ channelData \in Signals(targetLength + 1)
    /\ apc = "input"
    /\ processedData = <<>>
    /\ mfccAudioData = <<>>
    /\ frames = <<>>
    /\ bins = <<>>
    /\ features = <<>>
    /\ shape = <<>>
    /\ normalized = <<>>
    /\ LoaderIdle
    /\ overlapping = FALSE
    /\ RecorderIdle
    /\ IoIdle

CallAudioBufferToFloat32 ==
    /\ apc = "input"
    /\ apc' = "converted"
    /\ processedData' = audioBufferToFloat32(channelData)
    /\ UNCHANGED <<channelData, mfccAudioData, frames, bins, features, shape,
                   normalized>>
    /\ UNCHANGED <<loaderVars, recorderVars, ioVars>>

CallExtractMFCC ==
    /\ apc = "input"
    /\ apc' = "extracted"
    /\ LET data == audioBufferToFloat32(channelData)
           n == naturalCount(data)
           fs == fixFrameCount(naturalFeatures(data))
       IN  /\ mfccAudioData' = data
           /\ frames' = [i \in 1..n |-> frameOf(data, i - 1)]
           /\ bins' = [i \in 1..n |->
                          [j \in 1..nMfcc |->
                              <<binStart(frameOf(data, i - 1), j - 1),
                                binEnd(frameOf(data, i - 1), j - 1)>>]]
           /\ features' = fs
           /\ shape' = tensorShape(fs)
           /\ normalized' = normalize(fs)
    /\ UNCHANGED <<channelData, processedData>>
    /\ UNCHANGED <<loaderVars, recorderVars, ioVars>>

NextAudio == CallAudioBufferToFloat32 \/ CallExtractMFCC

SpecAudio == InitAudio /\ [][NextAudio]_vars

\* The model instances the registry refers to
Held == {languageModel, accentModel, spoofingModel} \ {null}

\* The registry holds nothing: the state unloadModels leaves
Unloaded ==
    /\ languageModel = null /\ accentModel = null /\ spoofingModel = null
    /\ languageLabels = NullValue /\ spoofingConfig = NullValue
    /\ ~modelsLoaded

\* C21: unloadModels disposes exactly the instances the registry refers to,
\* none of them disposed before, and leaves every reference, languageLabels
\* and spoofingConfig null and modelsLoaded false; run on that state it
\* disposes nothing and changes nothing; and a loadModels call that resolves
\* afterwards has loaded the models again: its language model is an instance
\* that is not disposed.
C21_UnloadIdempotent ==
    /\ [][unloadCalls' # unloadCalls =>
            /\ Unloaded'
            /\ disposed' = disposed \cup Held
            /\ Held \cap disposed = {}
            /\ Unloaded => (registryVars' = registryVars /\ disposed' = disposed)]_vars
    /\ [](\A c \in Callers :
            lpc[c] = "resolved" =>
                /\ modelsLoaded
                /\ ret[c].languageModel = languageModel
                /\ languageModel # null
                /\ languageModel \notin disposed)

\* Models were loaded and disposed, unloadModels ran twice, once of them on
\* an empty registry, and the models were loaded again.
C21_Witness ==
    /\ unloadCalls = 2
    /\ disposed # {}
    /\ modelsLoaded
    /\ languageModel # null
    /\ languageModel \notin disposed

\* C22: whenever modelsLoaded is true, languageModel refers to an instance
\* that has not been disposed.
C22_LoadedImpliesLanguageModel ==
    modelsLoaded => (languageModel # null /\ languageModel \notin disposed)

\* C23: a loadModels call that has resolved while the models are loaded
\* holds the five fields languageModel, accentModel, spoofingModel,
\* languageLabels and spoofingConfig with the values of the registry, whether
\* it loaded the models or found them loaded.
C23_SameResultWhenLoaded ==
    \A c \in Callers :
        (lpc[c] = "resolved" /\ modelsLoaded) =>
            ret[c] = [languageModel |-> languageModel, accentModel |-> accentModel,
                      spoofingModel |-> spoofingModel,
                      languageLabels |-> languageLabels,
                      spoofingConfig |-> spoofingConfig]

(***************************************************************************)
(* Properties of the audio pipeline                                        *)
(***************************************************************************)

\* C1: audioBufferToFloat32 returns exactly sampleRate * duration samples:
\* the input's samples at the indices the input has, zeros after them.
C1_NormalizedLength ==
    apc = "converted" =>
        /\ Len(processedData) = sampleRate * duration
        /\ \A i \in 1..(sampleRate * duration) :
              processedData[i] = IF i <= Len(channelData) THEN channelData[i] ELSE 0

\* An input of half the target length (rounded down), without a zero sample,
\* was converted:
\* the second half of the result is the padding.
C1_Witness ==
    /\ apc = "converted"
    /\ Len(channelData) = (sampleRate * duration) \div 2
    /\ \A i \in 1..Len(channelData) : channelData[i] # 0
    /\ \A i \in (Len(channelData) + 1)..Len(processedData) : processedData[i] = 0

\* C2: the feature sequence of extractMFCC has exactly targetFrames entries
\* of 3 * nMfcc values each, and the tensor has shape [1, targetFrames, 3 * nMfcc].
C2_FeatureShape ==
    apc = "extracted" =>
        /\ Len(features) = targetFrames
        /\ \A t \in 1..Len(features) : Len(features[t]) = 3 * nMfcc
        /\ shape = <<1, targetFrames, 3 * nMfcc>>
        /\ Len(normalized) = targetFrames
        /\ \A t \in 1..Len(normalized) : Len(normalized[t]) = 3 * nMfcc

\* extractMFCC ran on a signal with fewer natural frames than targetFrames,
\* and zero vectors were appended.
C2_Witness ==
    /\ apc = "extracted"
    /\ Len(frames) > 0
    /\ Len(frames) < targetFrames
    /\ Len(features) = targetFrames
    /\ \A c \in 1..(3 * nMfcc) : features[targetFrames][c] = Zero

\* The 0-based sample indices of frame f that band j sums over.
SamplesOfBin(f, j) == {k \in 0..(Len(frames[f]) - 1) : bins[f][j][1] <= k /\ k < bins[f][j][2]}
BinsHolding(f, k) == {j \in 1..nMfcc : k \in SamplesOfBin(f, j)}

\* C9 (as claimed): every sample of every frame belongs to exactly one bin,
\* the final bin absorbing the remainder of the division by nMfcc.
C9_EverySampleInOneBin ==
    apc = "extracted" =>
        \A f \in 1..Len(frames) : \A k \in 0..(Len(frames[f]) - 1) :
            Cardinality(BinsHolding(f, k)) = 1

\* C9 (amended): the nMfcc bins are contiguous, each exactly
\* floor(frameLength / nMfcc) samples wide, and cover the first
\* nMfcc * floor(frameLength / nMfcc) samples once each; the remaining
\* frameLength mod nMfcc samples at the end of the frame are in no bin.
C9_BinsCoverPrefix ==
    apc = "extracted" =>
        \A f \in 1..Len(frames) :
            LET w == Len(frames[f]) \div nMfcc IN
            /\ \A j \in 1..nMfcc : bins[f][j] = <<(j - 1) * w, j * w>>
            /\ \A k \in 0..(Len(frames[f]) - 1) :
                  Cardinality(BinsHolding(f, k)) = IF k < nMfcc * w THEN 1 ELSE 0

\* A frame whose length is not a multiple of nMfcc was split into bins.
C9_Witness ==
    /\ apc = "extracted"
    /\ \E f \in 1..Len(frames) :
          /\ Len(frames[f]) % nMfcc # 0
          /\ BinsHolding(f, Len(frames[f]) - 1) = {}
          /\ frames[f][Len(frames[f])] # 0

\* C10: the energy stored at index j of a frame's feature vector is the sum
\* of |sample| over bin j divided by the number of samples in bin j.
C10_EnergyIsBinMean ==
    apc = "extracted" =>
        \A f \in 1..Len(frames) : \A j \in 1..nMfcc :
            LET count == Cardinality(SamplesOfBin(f, j))
                total == sumAbs(frames[f], bins[f][j][1], bins[f][j][2])
            IN  /\ count > 0
                /\ features[f][j][2] > 0
                /\ features[f][j][1] * count = total * features[f][j][2]

\* A band of some frame has a non-zero energy, and a band has energy zero.
C10_Witness ==
    /\ apc = "extracted"
    /\ \E f \in 1..Len(frames) : \E j \in 1..nMfcc :
          /\ features[f][j][1] > 0
          /\ \E k \in SamplesOfBin(f, j) : frames[f][k + 1] < 0

\* d = a - b, for fractions with positive denominators
IsDifference(d, a, b) ==
    /\ a[2] > 0 /\ b[2] > 0 /\ d[2] > 0
    /\ d[1] * a[2] * b[2] = (a[1] * b[2] - b[1] * a[2]) * d[2]

\* C11: in the feature vector v of every natural frame, v[B] = 0 and
\* v[B + j] = v[j] - v[j - 1] for 0 < j < B, v[2B] = 0 and
\* v[2B + j] = v[B + j] - v[B + j - 1] for 0 < j < B (B = nMfcc, indices from
\* 0), and the vector is a function of its own frame only.
C11_DifferenceBands ==
    apc = "extracted" =>
        /\ \A f \in 1..Len(frames) :
              LET v == features[f] IN
              /\ v[nMfcc + 1] = Zero
              /\ v[2 * nMfcc + 1] = Zero
              /\ \A j \in 1..(nMfcc - 1) :
                    /\ IsDifference(v[nMfcc + j + 1], v[j + 1], v[j])
                    /\ IsDifference(v[2 * nMfcc + j + 1], v[nMfcc + j + 1], v[nMfcc + j])
        /\ \A f, g \in 1..Len(frames) :
              frames[f] = frames[g] => features[f] = features[g]

\* A natural frame whose first and second differences of band 1 are not
\* zero, next to a frame with other samples.
C11_Witness ==
    /\ apc = "extracted"
    /\ \E f, g \in 1..Len(frames) :
          /\ features[f][nMfcc + 2] # Zero
          /\ features[f][2 * nMfcc + 2] # Zero
          /\ frames[f] # frames[g]

\* C12: for a signal of exactly sampleRate * duration zero samples the
\* feature sequence has targetFrames entries, all zero, and every normalized
\* entry is 0 / (0 + epsilon) = 0.
C12_ZeroSignal ==
    (/\ apc = "extracted"
     /\ Len(channelData) = sampleRate * duration
     /\ \A i \in 1..Len(channelData) : channelData[i] = 0) =>
        /\ Len(features) = targetFrames
        /\ Len(normalized) = targetFrames
        /\ \A t \in 1..Len(features) : \A c \in 1..Len(features[t]) :
              /\ features[t][c] = Zero
              /\ normalized[t][c].dev = Zero
              /\ normalized[t][c].variance = Zero

\* extractMFCC ran on the zero signal of exactly the target length.
C12_Witness ==
    /\ apc = "extracted"
    /\ Len(channelData) = sampleRate * duration
    /\ \A i \in 1..Len(channelData) : channelData[i] = 0
    /\ Len(frames) > 0
    /\ \A f \in 1..Len(frames) : \A k \in 1..Len(frames[f]) : frames[f][k] = 0

\* Column c of the feature sequence has the same value at every time step.
ConstantColumn(c) ==
    \A t, u \in 1..Len(features) : features[t][c] = features[u][c]

\* C13: for every column the variance is a number and not negative, so that
\* std + epsilon >= epsilon > 0; no entry is NaN; and in a column that is
\* constant over time every normalized entry is 0 / (0 + epsilon) = 0.
C13_EpsilonFloor ==
    apc = "extracted" =>
        \A t \in 1..Len(normalized) : \A c \in 1..Len(normalized[t]) :
            /\ ~IsNaN(normalized[t][c].variance)
            /\ normalized[t][c].variance[1] >= 0
            /\ normalized[t][c].variance[2] > 0
            /\ ~IsNaN(normalized[t][c].dev)
            /\ ConstantColumn(c) =>
                  /\ normalized[t][c].dev = Zero
                  /\ normalized[t][c].variance = Zero

\* A signal that is not silent was normalized: one column is constant and
\* another column varies over time.
C13_Witness ==
    /\ apc = "extracted"
    /\ Len(normalized) > 0
    /\ \E c, d \in 1..(3 * nMfcc) :
          /\ ConstantColumn(c)
          /\ normalized[1][c].dev = Zero
          /\ ~ConstantColumn(d)
          /\ normalized[1][d].variance[1] > 0

\* C19: extractMFCC cuts floor((len - fftSize) / hopLength) + 1 frames from
\* the normalized signal, as many as there are starts i * hopLength with a
\* whole frame behind them; frame i is samples
\* [i * hopLength, i * hopLength + fftSize) and has exactly fftSize samples.
C19_NaturalFrames ==
    apc = "extracted" =>
        LET len == Len(mfccAudioData) IN
        /\ Len(frames) = ((len - fftSize) \div hopLength) + 1
        /\ Len(frames) = Cardinality({i \in 0..len : i * hopLength + fftSize <= len})
        /\ \A f \in 1..Len(frames) :
              /\ (f - 1) * hopLength + fftSize <= len
              /\ Len(frames[f]) = fftSize
              /\ \A k \in 1..fftSize :
                    frames[f][k] = mfccAudioData[(f - 1) * hopLength + k]

\* Overlapping frames were cut from a signal: the second one starts
\* hopLength samples into the first and differs from it.
C19_Witness ==
    /\ apc = "extracted"
    /\ Len(frames) >= 2
    /\ hopLength < fftSize
    /\ frames[1] # frames[2]
    /\ frames[2][1] = frames[1][hopLength + 1]

\* Sums over the time steps 1..t of column c of the result
RECURSIVE devSum(_, _)
devSum(c, t) ==
    IF t = 0 THEN Zero ELSE RatAdd(normalized[t][c].dev, devSum(c, t - 1))

RECURSIVE devSqSum(_, _)
devSqSum(c, t) ==
    IF t = 0 THEN Zero
    ELSE RatAdd(RatMul(normalized[t][c].dev, normalized[t][c].dev), devSqSum(c, t - 1))

\* C20: the entry at time step t and column c is
\* (seq[t][c] - mean[c]) / (std[c] + epsilon) with the mean and the
\* population deviation of column c over all targetFrames time steps, the
\* padding frames included: the numerators of a column differ as the
\* features do and add up to zero, the variance is the mean of their
\* squares, and a padding frame is normalized to -mean[c] / (std[c] + epsilon).
C20_Normalization ==
    apc = "extracted" =>
        LET T == Len(features) IN
        \A c \in 1..(3 * nMfcc) :
            /\ devSum(c, T) = Zero
            /\ \A t, u \in 1..T :
                  /\ IsDifference(RatSub(normalized[t][c].dev, normalized[u][c].dev),
                                  features[t][c], features[u][c])
                  /\ normalized[t][c].variance = normalized[u][c].variance
            /\ RatMul(normalized[1][c].variance, <<T, 1>>) = devSqSum(c, T)

\* Padding frames were appended to a signal that is not silent, and a
\* padding entry was normalized to a value other than zero.
C20_Witness ==
    /\ apc = "extracted"
    /\ Len(frames) < Len(features)
    /\ \E c \in 1..(3 * nMfcc) :
          /\ features[Len(features)][c] = Zero
          /\ normalized[Len(features)][c].dev[1] < 0
          /\ normalized[Len(features)][c].variance[1] > 0

====
